---- MODULE Spec2Model ----
(***************************************************************************)
(* Model of the two-hop postal-code / weather pipeline.                    *)
(*                                                                         *)
(*   servico-a  (gateway)       CepHandler     POST /cep                   *)
(*   servico-b  (orchestrator)  WeatherHandler GET  /tempo?cep=...         *)
(*                                                                         *)
(* One gateway request and one orchestrator request are followed from     *)
(* arrival to response.  The orchestrator request is either the one the   *)
(* gateway forwarded or one sent to /tempo directly.  The three external  *)
(* collaborators (directory, geocoding, weather) are the environment:     *)
(* each answer is chosen from a small set of outcomes.                    *)
(*                                                                         *)
(* Strings that the code inspects character by character (postal codes)   *)
(* are sequences of one-character strings.  Temperatures are float64 in   *)
(* the code; here they are exact decimals: Celsius and Kelvin in tenths   *)
(* of a degree, Fahrenheit in hundredths of a degree.                     *)
(***************************************************************************)
EXTENDS Integers, Sequences, FiniteSets, TLC

VARIABLES
    pcA,        \* gateway handler position: "idle", "calling", "done"
    reqA,       \* inbound gateway request [method, body, hdr]
    recvA,      \* what client.Do returned to the gateway (NoResp before)
    respA,      \* the gateway's response to its caller
    outA,       \* outbound calls the gateway issued (sequence of codes)
    netAB,      \* gateway -> orchestrator request in flight (NoMsg if none)
    pcB,        \* orchestrator handler position
    viaB,       \* "gateway" or "direct": where the orchestrator request came from
    cepParam,   \* r.URL.Query().Get("cep")
    cidade,     \* cepData.Localidade once the directory stage succeeded
    dirOut,     \* outcome of the directory call (NoOut before)
    geoOut,     \* outcome of the geocoding call
    wxOut,      \* outcome of the weather call
    callsB,     \* external calls issued by the orchestrator, in order
    respB,      \* the orchestrator's response
    spans,      \* spans started so far (both services)
    nextId      \* next unused span / trace identifier

vars == <<pcA, reqA, recvA, respA, outA, netAB, pcB, viaB, cepParam, cidade,
          dirOut, geoOut, wxOut, callsB, respB, spans, nextId>>

(***************************************************************************)
(* Bounds                                                                  *)
(***************************************************************************)
\* Largest number of matches a geocoding answer carries.
MaxResults == 2

(***************************************************************************)
(* Postal codes                                                            *)
(***************************************************************************)
Digit == {"0", "1", "2", "3", "4", "5", "6", "7", "8", "9"}

CepSamples ==
    { <<"0","1","0","0","1","0","0","0">>,          \* valid
      <<"0","0","0","0","0","0","0","0">>,          \* valid, unknown to the directory
      <<"1","2","3","4","5","6","7">>,              \* 7 digits
      <<"1","2","3","4","5","6","7","8","9">>,      \* 9 digits
      <<"1","2","3","4","5","6","7","a">>,          \* a letter
      <<"0","1","0","0","1","-","0","0","0">>,      \* a hyphen
      <<" ","0","1","0","0","1","0","0","0">>,      \* leading space
      <<"0","1","0","0","1","0","0","0","\n">>,     \* trailing newline
      <<>> }                                        \* empty

(***************************************************************************)
(* Tracing: contexts, propagators, spans                                   *)
(***************************************************************************)
\* A span context / traceparent value; NoCtx is the empty context and the
\* absent header.
NoCtx == [trace |-> 0, span |-> 0]

\* A traceparent header a caller outside the system may send.
ExternalCtx == [trace |-> 900, span |-> 901]

ClientHeaders == {NoCtx, ExternalCtx}

\* servico-a never calls otel.SetTextMapPropagator: otelhttp falls back to
\* the global propagator, which is the no-op one until it is set.
PropagatorA == "noop"

\* servico-b installs the composite TraceContext + Baggage propagator.
PropagatorB == "tracecontext"

\* TextMapPropagator.Extract: the remote span context found in the headers.
Extract(prop, hdr) == IF prop = "tracecontext" THEN hdr ELSE NoCtx

\* TextMapPropagator.Inject: the traceparent header written for ctx.
Inject(prop, ctx) == IF prop = "tracecontext" THEN ctx ELSE NoCtx

\* tracer.Start(ctx, name): a child of ctx's span in ctx's trace, or the
\* root of a new trace when ctx carries no span.  id is unused so far and
\* names both the span and, for a root, the new trace.
StartSpan(ctx, name, svc, id) ==
    [id |-> id,
     trace |-> IF ctx = NoCtx THEN id ELSE ctx.trace,
     parent |-> ctx.span,
     name |-> name,
     svc |-> svc]

\* The context that carries span s.
CtxOf(s) == [trace |-> s.trace, span |-> s.id]

(***************************************************************************)
(* HTTP responses                                                          *)
(***************************************************************************)
NoResp == [status |-> 0, body |-> <<>>, ctype |-> ""]
\* client.Do returned an error instead of a response.
TransportError == [status |-> -1, body |-> <<>>, ctype |-> ""]
NoMsg == [cep |-> <<>>, hdr |-> NoCtx, sent |-> FALSE]
NoOut == [net |-> "none", status |-> 0, read |-> "none", body |-> <<>>]

\* http.Error(w, msg, code): plain text, the message and a newline.
httpError(code, msg) ==
    [status |-> code, body |-> <<msg, "\n">>, ctype |-> "text/plain; charset=utf-8"]

(***************************************************************************)
(* servico-a: the gateway                                                  *)
(***************************************************************************)
Methods == {"GET", "POST", "PUT"}

\* Request bodies: not JSON at all, a JSON object whose "cep" is not a
\* string, a JSON object without "cep", a JSON object with a string "cep".
BodySamples ==
    { [kind |-> "malformed", cep |-> <<>>],
      [kind |-> "wrongtype", cep |-> <<>>],
      [kind |-> "nofield", cep |-> <<>>] }
    \cup { [kind |-> "ok", cep |-> c] : c \in CepSamples }

\* json.NewDecoder(r.Body).Decode(&req) into CepRequest.
DecodeCepRequest(body) ==
    [err |-> body.kind \in {"malformed", "wrongtype"},
     Cep |-> IF body.kind = "ok" THEN body.cep ELSE <<>>]

\* A plausible slip: the pattern without its closing anchor, `^\d{8}`.
A_validateCEP_Unanchored(cep) ==
    Len(cep) >= 8 /\ \A i \in 1..8 : cep[i] \in Digit

\* regexp `^\d{8}$` (servico-a): \d is an ASCII digit, $ is the end of the text.
A_validateCEP(cep) ==
    Len(cep) = 8 /\ \A i \in 1..Len(cep) : cep[i] \in Digit

\* The early returns of CepHandler, in the order of the code; NoResp when
\* the request passes all three.
CepHandlerReject(method, body) ==
    IF method # "POST"
    THEN httpError(405, "Metodo nao permitido")
    ELSE IF DecodeCepRequest(body).err
    THEN httpError(400, "invalid request body")
    ELSE IF ~A_validateCEP(DecodeCepRequest(body).Cep)
    THEN httpError(422, "invalid zipcode")
    ELSE NoResp

\* A plausible slip: the body written without WriteHeader(resp.StatusCode),
\* which answers 200 whatever the downstream said.
RelayResponse_ImplicitOK(resp) ==
    [status |-> 200, body |-> resp.body, ctype |-> "application/json"]

\* The relay of the downstream response: status and body as received.
RelayResponse(resp) ==
    [status |-> resp.status, body |-> resp.body, ctype |-> "application/json"]

\* Responses client.Do may return that the orchestrator modelled here does
\* not produce (another server or a proxy answering at servico-b:8080).
OtherResponses ==
    { [status |-> 503, body |-> <<"upstream unavailable">>, ctype |-> "text/html"],
      [status |-> 204, body |-> <<>>, ctype |-> ""],
      [status |-> 200, body |-> <<"{\"city\":\"X\"}">>, ctype |-> "text/plain"] }

\* CepHandler up to its outbound call (or to its early return).
CepHandlerRequest ==
    /\ pcA = "idle"
    /\ \E method \in Methods, body \in BodySamples, hdr \in ClientHeaders :
        LET srv == StartSpan(Extract(PropagatorA, hdr), "CepHandler", "servico-a", nextId)
            sp  == StartSpan(CtxOf(srv), "Processar CEP", "servico-a", nextId + 1)
            cl  == StartSpan(CtxOf(sp), "HTTP GET", "servico-a", nextId + 2)
            rej == CepHandlerReject(method, body)
        IN  /\ reqA' = [method |-> method, body |-> body, hdr |-> hdr]
            /\ IF rej # NoResp
               THEN /\ respA' = rej
                    /\ pcA' = "done"
                    /\ spans' = spans \cup {srv, sp}
                    /\ nextId' = nextId + 2
                    /\ UNCHANGED <<outA, netAB>>
               ELSE /\ outA' = Append(outA, DecodeCepRequest(body).Cep)
                    /\ netAB' = [cep |-> DecodeCepRequest(body).Cep,
                                 hdr |-> Inject(PropagatorA, CtxOf(cl)),
                                 sent |-> TRUE]
                    /\ pcA' = "calling"
                    /\ spans' = spans \cup {srv, sp, cl}
                    /\ nextId' = nextId + 3
                    /\ UNCHANGED respA
    /\ UNCHANGED <<recvA, pcB, viaB, cepParam, cidade, dirOut, geoOut, wxOut,
                   callsB, respB>>

\* client.Do returned an error: 500.
CepHandlerTransportError ==
    /\ pcA = "calling"
    /\ recvA' = TransportError
    /\ respA' = httpError(500, "erro ao conectar com servico B")
    /\ pcA' = "done"
    /\ netAB' = NoMsg
    /\ UNCHANGED <<reqA, outA, pcB, viaB, cepParam, cidade, dirOut, geoOut, wxOut,
                   callsB, respB, spans, nextId>>

\* client.Do returned a response: relay it.
CepHandlerReply ==
    /\ pcA = "calling"
    /\ \E resp \in (IF pcB = "done" /\ viaB = "gateway" THEN {respB} ELSE {})
                   \cup (IF netAB.sent THEN OtherResponses ELSE {}) :
        /\ recvA' = resp
        /\ respA' = RelayResponse(resp)
    /\ pcA' = "done"
    /\ netAB' = NoMsg
    /\ UNCHANGED <<reqA, outA, pcB, viaB, cepParam, cidade, dirOut, geoOut, wxOut,
                   callsB, respB, spans, nextId>>

(***************************************************************************)
(* servico-b: the orchestrator                                             *)
(***************************************************************************)
\* A plausible slip: the pattern without its closing anchor, `^\d{8}`.
B_validateCEP_Unanchored(cep) ==
    Len(cep) >= 8 /\ \A i \in 1..8 : cep[i] \in Digit

\* regexp `^\d{8}$` (servico-b).
B_validateCEP(cep) ==
    Len(cep) = 8 /\ \A i \in 1..Len(cep) : cep[i] \in Digit

\* Outcome of one external call: client.Do failed (net = "err"), or it
\* returned a response with a status whose body could not be read
\* (read = "err") or was read in full.
NetErr == [net |-> "err", status |-> 0, read |-> "none", body |-> <<>>]
ReadErr(st) == [net |-> "ok", status |-> st, read |-> "err", body |-> <<>>]
Answer(st, b) == [net |-> "ok", status |-> st, read |-> "ok", body |-> b]

Cities == {"Sao Paulo", "Rio de Janeiro"}

\* Directory bodies: not JSON; a JSON object without "localidade" (the
\* directory's {"erro": true}); a JSON object with "localidade".
ViaCEPBodies ==
    { [json |-> FALSE, has |-> FALSE, localidade |-> ""],
      [json |-> TRUE, has |-> FALSE, localidade |-> ""] }
    \cup { [json |-> TRUE, has |-> TRUE, localidade |-> c] : c \in Cities \cup {""} }

DirectoryOutcomes ==
    {NetErr, ReadErr(200)}
    \cup { Answer(st, b) : st \in {200, 400}, b \in ViaCEPBodies }

\* BuscaCEP after client.Do: (*ViaCEP, error).  A field the body lacks keeps
\* the zero value "".
BuscaCEP(out) ==
    IF out.net = "err" \/ out.read = "err" \/ ~out.body.json
    THEN [err |-> TRUE, Localidade |-> ""]
    ELSE [err |-> FALSE,
          Localidade |-> IF out.body.has THEN out.body.localidade ELSE ""]

\* A plausible slip: only the error is tested, not the empty city.
LookupFailed_ErrOnly(r) == r.err

\* WeatherHandler line 76: err != nil || cepData.Localidade == "".
LookupFailed(r) == r.err \/ r.Localidade = ""

Coords == { [latitude |-> -2355, longitude |-> -4663],
            [latitude |-> 0, longitude |-> 0] }

RECURSIVE SeqsUpTo(_, _)
\* All sequences over S of length at most n.
SeqsUpTo(S, n) ==
    IF n = 0 THEN {<<>>}
    ELSE LET shorter == SeqsUpTo(S, n - 1)
         IN  shorter \cup { Append(q, x) : q \in shorter, x \in S }

\* Geocoding bodies: not JSON, or a JSON object with "results" (absent
\* "results" decodes to the empty list).
GeoBodies ==
    { [json |-> FALSE, results |-> <<>>] }
    \cup { [json |-> TRUE, results |-> rs] : rs \in SeqsUpTo(Coords, MaxResults) }

GeoOutcomes ==
    {NetErr, ReadErr(200), Answer(500, [json |-> TRUE, results |-> <<>>])}
    \cup { Answer(200, b) : b \in GeoBodies }

\* fetchWeather, geocoding half (lines 134-161): error, or the first match.
GeoResult(out) ==
    IF out.net = "err" \/ out.read = "err" \/ ~out.body.json
    THEN [err |-> TRUE, latitude |-> 0, longitude |-> 0]
    ELSE IF Len(out.body.results) = 0
    THEN [err |-> TRUE, latitude |-> 0, longitude |-> 0]
    ELSE [err |-> FALSE,
          latitude |-> out.body.results[1].latitude,
          longitude |-> out.body.results[1].longitude]

\* Celsius readings, in tenths of a degree.
TempSamples == {-400, -1, 0, 215, 250, 1000}

\* Weather bodies: not JSON; a JSON object without "current_weather" (an
\* error object, or {}); a JSON object with current_weather.temperature.
WeatherBodies ==
    { [json |-> FALSE, has |-> FALSE, temperature |-> 0],
      [json |-> TRUE, has |-> FALSE, temperature |-> 0] }
    \cup { [json |-> TRUE, has |-> TRUE, temperature |-> t] : t \in TempSamples }

WeatherOutcomes ==
    {NetErr, ReadErr(200),
     Answer(400, [json |-> TRUE, has |-> FALSE, temperature |-> 0])}
    \cup { Answer(200, b) : b \in WeatherBodies }

\* A plausible slip: the error of json.Unmarshal dropped.
WeatherResult_DecodeIgnored(out) ==
    IF out.net = "err" \/ out.read = "err"
    THEN [err |-> TRUE, temp |-> 0]
    ELSE [err |-> FALSE,
          temp |-> IF out.body.json /\ out.body.has THEN out.body.temperature ELSE 0]

\* fetchWeather, weather half (lines 165-181): (float64, error).  The
\* decoded struct keeps the zero value 0 for a field the body lacks.
WeatherResult(out) ==
    IF out.net = "err" \/ out.read = "err" \/ ~out.body.json
    THEN [err |-> TRUE, temp |-> 0]
    ELSE [err |-> FALSE,
          temp |-> IF out.body.has THEN out.body.temperature ELSE 0]

\* A plausible slip: the physical constant 273.15 instead of 273.
convertTemps_Kelvin27315(celsius, cid) ==
    [City |-> cid,
     TempC |-> celsius,
     TempF |-> celsius * 18 + 3200,
     TempK |-> celsius * 10 + 27315]

\* convertTemps: celsius and TempC in tenths of a degree, TempF and TempK in
\* hundredths of a degree.
\*   TempF = celsius*1.8 + 32    TempK = celsius + 273
convertTemps(celsius, cid) ==
    [City |-> cid,
     TempC |-> celsius,
     TempF |-> celsius * 18 + 3200,
     TempK |-> celsius * 10 + 27300]

\* json.NewEncoder(w).Encode(temps) after setting the content type: an
\* implicit 200, the report and a newline.
jsonOK(v) == [status |-> 200, body |-> <<v, "\n">>, ctype |-> "application/json"]

\* A plausible slip: the weather stage answering like the directory stage.
FetchWeatherFailed_NotFound == httpError(404, "erro ao buscar temperatura")

\* The handler's answers to a failed stage.
InvalidZipcode == httpError(422, "invalid zipcode")
CanNotFindZipcode == httpError(404, "can not find zipcode")
FetchWeatherFailed == httpError(500, "erro ao buscar temperatura")

\* A plausible slip: the span started from a fresh context, not from ctx.
fetchWeatherSpan_Background(ctx, id) ==
    StartSpan(NoCtx, "Buscar clima Open-Meteo", "servico-b", id)

\* The span BuscaCEP starts, the span fetchWeather starts, and the client
\* span otelhttp.NewTransport starts for each request.
BuscaCEPSpan(ctx, id) == StartSpan(ctx, "ViaCEP API", "servico-b", id)
fetchWeatherSpan(ctx, id) == StartSpan(ctx, "Buscar clima Open-Meteo", "servico-b", id)
ClientSpan(ctx, svc, id) == StartSpan(ctx, "HTTP GET", svc, id)

\* One external call as the orchestrator issues it: the span of the
\* context the request was built with, and the client span of the request.
Call(api, ctxSpan, clientSpan) ==
    [api |-> api, ctxSpan |-> ctxSpan.id, clientSpan |-> clientSpan.id,
     traceparent |-> Inject(PropagatorB, CtxOf(clientSpan))]

\* The span tracer.Start opened in WeatherHandler ("Processar tempo por CEP").
HandlerSpan ==
    CHOOSE s \in spans : s.svc = "servico-b" /\ s.name = "Processar tempo por CEP"

\* The span fetchWeather opened.
WeatherSpan ==
    CHOOSE s \in spans : s.svc = "servico-b" /\ s.name = "Buscar clima Open-Meteo"

\* WeatherHandler from the request to the directory call (or to the 422).
WeatherHandlerRequest ==
    /\ pcB = "idle"
    /\ \E src \in {"gateway", "direct"} :
       \E cep \in (IF src = "gateway" THEN {netAB.cep} ELSE CepSamples),
          hdr \in (IF src = "gateway" THEN {netAB.hdr} ELSE ClientHeaders) :
        LET srv == StartSpan(Extract(PropagatorB, hdr), "WeatherHandler", "servico-b", nextId)
            sp  == StartSpan(CtxOf(srv), "Processar tempo por CEP", "servico-b", nextId + 1)
            bs  == BuscaCEPSpan(CtxOf(sp), nextId + 2)
            cl  == ClientSpan(CtxOf(bs), "servico-b", nextId + 3)
        IN  /\ src = "gateway" => netAB.sent
            /\ viaB' = src
            /\ cepParam' = cep
            /\ netAB' = IF src = "gateway" THEN NoMsg ELSE netAB
            /\ IF ~B_validateCEP(cep)
               THEN /\ respB' = InvalidZipcode
                    /\ pcB' = "done"
                    /\ spans' = spans \cup {srv, sp}
                    /\ nextId' = nextId + 2
                    /\ UNCHANGED callsB
               ELSE /\ callsB' = Append(callsB, Call("directory", bs, cl))
                    /\ pcB' = "directory"
                    /\ spans' = spans \cup {srv, sp, bs, cl}
                    /\ nextId' = nextId + 4
                    /\ UNCHANGED respB
    /\ UNCHANGED <<pcA, reqA, recvA, respA, outA, cidade, dirOut, geoOut, wxOut>>

\* BuscaCEP returns: 404, or fetchWeather starts and issues the geocoding call.
WeatherHandlerDirectory ==
    /\ pcB = "directory"
    /\ \E out \in DirectoryOutcomes :
        LET r  == BuscaCEP(out)
            ws == fetchWeatherSpan(CtxOf(HandlerSpan), nextId)
            cl == ClientSpan(CtxOf(ws), "servico-b", nextId + 1)
        IN  /\ dirOut' = out
            /\ IF LookupFailed(r)
               THEN /\ respB' = CanNotFindZipcode
                    /\ pcB' = "done"
                    /\ UNCHANGED <<cidade, callsB, spans, nextId>>
               ELSE /\ cidade' = r.Localidade
                    /\ callsB' = Append(callsB, Call("geocoding", ws, cl))
                    /\ pcB' = "geocoding"
                    /\ spans' = spans \cup {ws, cl}
                    /\ nextId' = nextId + 2
                    /\ UNCHANGED respB
    /\ UNCHANGED <<pcA, reqA, recvA, respA, outA, netAB, viaB, cepParam, geoOut, wxOut>>

\* The geocoding call returns: 500, or the weather call is issued.
WeatherHandlerGeocoding ==
    /\ pcB = "geocoding"
    /\ \E out \in GeoOutcomes :
        LET g  == GeoResult(out)
            cl == ClientSpan(CtxOf(WeatherSpan), "servico-b", nextId)
        IN  /\ geoOut' = out
            /\ IF g.err
               THEN /\ respB' = FetchWeatherFailed
                    /\ pcB' = "done"
                    /\ UNCHANGED <<callsB, spans, nextId>>
               ELSE /\ callsB' = Append(callsB, Call("weather", WeatherSpan, cl))
                    /\ pcB' = "weather"
                    /\ spans' = spans \cup {cl}
                    /\ nextId' = nextId + 1
                    /\ UNCHANGED respB
    /\ UNCHANGED <<pcA, reqA, recvA, respA, outA, netAB, viaB, cepParam, cidade,
                   dirOut, wxOut>>

\* The weather call returns: 500, or the report.
WeatherHandlerWeather ==
    /\ pcB = "weather"
    /\ \E out \in WeatherOutcomes :
        LET w == WeatherResult(out)
        IN  /\ wxOut' = out
            /\ respB' = IF w.err THEN FetchWeatherFailed
                        ELSE jsonOK(convertTemps(w.temp, cidade))
    /\ pcB' = "done"
    /\ UNCHANGED <<pcA, reqA, recvA, respA, outA, netAB, viaB, cepParam, cidade,
                   dirOut, geoOut, callsB, spans, nextId>>

(***************************************************************************)
(* The system                                                              *)
(***************************************************************************)
Init ==
    /\ pcA = "idle"
    /\ reqA = [method |-> "", body |-> [kind |-> "", cep |-> <<>>], hdr |-> NoCtx]
    /\ recvA = NoResp
    /\ respA = NoResp
    /\ outA = <<>>
    /\ netAB = NoMsg
    /\ pcB = "idle"
    /\ viaB = ""
    /\ cepParam = <<>>
    /\ cidade = ""
    /\ dirOut = NoOut
    /\ geoOut = NoOut
    /\ wxOut = NoOut
    /\ callsB = <<>>
    /\ respB = NoResp
    /\ spans = {}
    /\ nextId = 1

Next ==
    \/ CepHandlerRequest
    \/ CepHandlerTransportError
    \/ CepHandlerReply
    \/ WeatherHandlerRequest
    \/ WeatherHandlerDirectory
    \/ WeatherHandlerGeocoding
    \/ WeatherHandlerWeather

Spec == Init /\ [][Next]_vars

(***************************************************************************)
(* Properties                                                              *)
(***************************************************************************)
\* "Exactly 8 decimal digits", stated independently of the validators.
IsEightDigits(s) == s \in [1..8 -> Digit]

\* The external calls issued so far, by name.
Apis == [i \in 1..Len(callsB) |-> callsB[i].api]

\* An external call answered, its body read in full.
Answered(out) == out.net = "ok" /\ out.read = "ok"

\* An external call answered with a body that does not decode.
Undecodable(out) == Answered(out) /\ ~out.body.json

\* The gateway received a response (not an error) from client.Do.
GatewayGotResponse == pcA = "done" /\ recvA # NoResp /\ recvA # TransportError

\* C1: every response the gateway receives from the orchestrator is relayed
\* with the same status code and the same body, and with Content-Type
\* application/json.
C1_RelayUnchanged ==
    GatewayGotResponse =>
        /\ respA.status = recvA.status
        /\ respA.body = recvA.body
        /\ respA.ctype = "application/json"

\* C1 happens: the orchestrator answered 200 with a report and the gateway
\* relayed it.
C1_Witness ==
    /\ GatewayGotResponse
    /\ viaB = "gateway" /\ pcB = "done"
    /\ recvA = respB
    /\ respB.status = 200

\* C2: the gateway calls the orchestrator only for a POST whose body decodes
\* and whose code is exactly 8 digits; otherwise it answers 405, 400 or 422,
\* checked in that order, without an outbound call; a transport failure of the
\* outbound call is answered 500.
C2_GatewayChecks ==
    LET decodes == reqA.body.kind \in {"ok", "nofield"}
        post    == reqA.method = "POST"
    IN  pcA # "idle" =>
        /\ ~post =>
             pcA = "done" /\ respA.status = 405 /\ outA = <<>>
        /\ (post /\ ~decodes) =>
             pcA = "done" /\ respA.status = 400 /\ outA = <<>>
        /\ (post /\ decodes /\ ~IsEightDigits(reqA.body.cep)) =>
             pcA = "done" /\ respA.status = 422 /\ outA = <<>>
        /\ (post /\ decodes /\ IsEightDigits(reqA.body.cep)) =>
             outA = <<reqA.body.cep>>
        /\ recvA = TransportError => respA.status = 500

\* C2 happens: a POST with a decodable body and a 9-digit code was answered.
C2_Witness ==
    /\ pcA = "done"
    /\ reqA.method = "POST"
    /\ reqA.body.kind = "ok"
    /\ Len(reqA.body.cep) = 9
    /\ \A i \in 1..9 : reqA.body.cep[i] \in Digit

\* The directory answered with a decodable body whose city is empty.
DirectoryEmptyCity ==
    /\ Answered(dirOut)
    /\ dirOut.body.json
    /\ (~dirOut.body.has \/ dirOut.body.localidade = "")

\* C3: a transport error on the directory lookup and a directory answer with
\* an empty city both end the request with 404, and neither the geocoding
\* call nor the weather call is issued.
C3_DirectoryNotFound ==
    (dirOut.net = "err" \/ DirectoryEmptyCity) =>
        /\ pcB = "done"
        /\ respB.status = 404
        /\ Apis = <<"directory">>
        /\ geoOut = NoOut /\ wxOut = NoOut

\* C3 happens: the directory answered 200 with an empty city for a
\* well-formed code.
C3_Witness ==
    /\ DirectoryEmptyCity
    /\ dirOut.status = 200
    /\ IsEightDigits(cepParam)
    /\ pcB = "done"

\* The geocoding service answered with a decodable body and no match.
GeocodingNoMatch ==
    /\ Answered(geoOut)
    /\ geoOut.body.json
    /\ Len(geoOut.body.results) = 0

\* C4: after a non-empty city, a geocoding answer without results and a
\* transport error on the geocoding call both end the request with 500 (never
\* 404), and the weather call is not issued.
C4_GeocodingFailure ==
    (geoOut.net = "err" \/ GeocodingNoMatch) =>
        /\ cidade # ""
        /\ pcB = "done"
        /\ respB.status = 500
        /\ Apis = <<"directory", "geocoding">>
        /\ wxOut = NoOut

\* C4 happens: the geocoding service answered 200 with zero results.
C4_Witness ==
    /\ GeocodingNoMatch
    /\ geoOut.status = 200
    /\ pcB = "done"

\* All three calls succeeded: a city, a match, a current temperature.
AllSucceeded ==
    /\ Answered(wxOut)
    /\ wxOut.body.json
    /\ wxOut.body.has

\* C5: when all three calls succeed with city c and temperature t, the answer
\* is 200 with city c, temp_C t, temp_F t*1.8+32 and temp_K t+273; 0 gives 32
\* and 273, 100 gives 212, -40 gives -40, 25 gives 77 and 298.  (t and temp_C
\* in tenths, temp_F and temp_K in hundredths of a degree.)
C5_Report ==
    AllSucceeded =>
        LET t == wxOut.body.temperature
            r == respB.body[1]
        IN  /\ pcB = "done"
            /\ respB.status = 200
            /\ respB.ctype = "application/json"
            /\ r.City = dirOut.body.localidade
            /\ r.TempC = t
            /\ r.TempF = 18 * t + 3200
            /\ r.TempK = 10 * t + 27300
            /\ t = 0 => r.TempF = 3200 /\ r.TempK = 27300
            /\ t = 1000 => r.TempF = 21200
            /\ t = -400 => r.TempF = -4000
            /\ t = 250 => r.TempF = 7700 /\ r.TempK = 29800

\* C5 happens: city "Sao Paulo" and 25.0 degrees.
C5_Witness ==
    /\ AllSucceeded
    /\ wxOut.body.temperature = 250
    /\ cidade = "Sao Paulo"
    /\ pcB = "done"

\* The span tracer.Start opened in CepHandler ("Processar CEP").
GatewaySpan ==
    CHOOSE s \in spans : s.svc = "servico-a" /\ s.name = "Processar CEP"

\* C6: for a request that enters at the gateway and reaches the orchestrator,
\* the orchestrator's handler span and the spans of its outbound calls carry
\* the trace identifier of the gateway's span.
C6_SameTrace ==
    (viaB = "gateway") =>
        \A s \in spans : s.svc = "servico-b" => s.trace = GatewaySpan.trace

\* The span with identifier i.
SpanById(i) == CHOOSE s \in spans : s.id = i

RECURSIVE Enclosing(_)
\* The identifiers of span i and of the spans above it.
Enclosing(i) ==
    IF \E s \in spans : s.id = i
    THEN {i} \cup Enclosing(SpanById(i).parent)
    ELSE {}

\* C7 as stated: every external call has a span around it that is a child of
\* the handler's span and is around neither of the other two calls.
C7_OwnSpanPerCall ==
    \A i \in 1..Len(callsB) :
        \E s \in spans :
            /\ s.id \in Enclosing(callsB[i].clientSpan)
            /\ s.parent = HandlerSpan.id
            /\ \A j \in 1..Len(callsB) :
                j # i => s.id \notin Enclosing(callsB[j].clientSpan)

\* C7 amended: the directory call runs in its own span "ViaCEP API"; the
\* geocoding call and the weather call run together in the one span "Buscar
\* clima Open-Meteo"; both spans are children of the handler's span and
\* differ from each other; below them each request has only its otelhttp
\* client span.
C7_TwoStageSpans ==
    \A i \in 1..Len(callsB) :
        LET c == callsB[i]
            w == SpanById(c.ctxSpan)
        IN  /\ w.parent = HandlerSpan.id
            /\ w.trace = HandlerSpan.trace
            /\ w.name = IF c.api = "directory" THEN "ViaCEP API"
                        ELSE "Buscar clima Open-Meteo"
            /\ SpanById(c.clientSpan).parent = c.ctxSpan
            /\ \A j \in 1..Len(callsB) :
                (callsB[j].ctxSpan = c.ctxSpan) <=>
                    ((callsB[j].api = "directory") <=> (c.api = "directory"))

\* C7 happens: all three calls were issued.
C7_Witness == Len(callsB) = 3 /\ pcB = "done"

\* C8: the external calls are issued in the order directory, geocoding,
\* weather, each at most once, each only after the stage before it succeeded,
\* and none at all for a code that fails the format check (422).
C8_CallOrder ==
    /\ Apis \in { <<>>, <<"directory">>, <<"directory", "geocoding">>,
                  <<"directory", "geocoding", "weather">> }
    /\ (pcB # "idle" /\ ~IsEightDigits(cepParam)) =>
          callsB = <<>> /\ pcB = "done" /\ respB.status = 422
    /\ Len(callsB) >= 2 =>
          /\ Answered(dirOut) /\ dirOut.body.json
          /\ dirOut.body.has /\ dirOut.body.localidade # ""
    /\ Len(callsB) >= 3 =>
          /\ Answered(geoOut) /\ geoOut.body.json
          /\ Len(geoOut.body.results) >= 1

\* C8 happens: the three calls in order, and the request finished.
C8_Witness ==
    /\ Apis = <<"directory", "geocoding", "weather">>
    /\ wxOut # NoOut
    /\ pcB = "done"

\* C9 as stated: an undecodable body from any collaborator ends the request
\* with 500.
C9_DecodeIs500 ==
    (Undecodable(dirOut) \/ Undecodable(geoOut) \/ Undecodable(wxOut)) =>
        pcB = "done" /\ respB.status = 500

\* C9 amended: an undecodable geocoding or weather body ends the request with
\* 500; an undecodable directory body ends it with 404, like every other
\* failure of the directory stage, and 404 comes from that stage alone.
C9_DecodeByStage ==
    /\ (Undecodable(geoOut) \/ Undecodable(wxOut)) =>
          pcB = "done" /\ respB.status = 500
    /\ Undecodable(dirOut) =>
          pcB = "done" /\ respB.status = 404
    /\ respB.status = 404 =>
          dirOut # NoOut /\ geoOut = NoOut /\ LookupFailed(BuscaCEP(dirOut))

\* C9 happens: the directory body did not decode and the request finished.
C9_Witness == Undecodable(dirOut) /\ pcB = "done"

\* C10: a 200 only when the directory gave a non-empty city, the geocoding
\* service gave a match, the weather answer held a current temperature, and
\* no collaborator answered with an error status.
C10_OkOnlyFromResults ==
    (pcB = "done" /\ respB.status = 200) =>
        /\ Answered(dirOut) /\ dirOut.body.has /\ dirOut.body.localidade # ""
        /\ Answered(geoOut) /\ Len(geoOut.body.results) >= 1
        /\ Answered(wxOut) /\ wxOut.body.has
        /\ dirOut.status = 200 /\ geoOut.status = 200 /\ wxOut.status = 200

====
